---- MODULE Spec2Model ----
(***************************************************************************)
(* CZI-to-Imaris_or_OME-TIF.py as a state machine.                         *)
(*                                                                         *)
(* The script is one sequential thread of control.  pc holds the source    *)
(* line the thread is at ("L147" is line 147 of the script).  Every        *)
(* read_mosaic request is appended to `reads`, and every other call into   *)
(* an external library (CziFile, tifffile.imwrite, PyImarisWriter, tkinter *)
(* dialogs) to `events`, in the order it is made; a call that can raise    *)
(* does so nondeterministically.                                           *)
(*                                                                         *)
(* `entry` is how the module is used: run as a script ("main", the         *)
(* __main__ block), or imported and one of its two functions called.       *)
(***************************************************************************)
EXTENDS Integers, Sequences, FiniteSets, TLC

VARIABLES
    pc,               \* source line the thread of control is at
    entry,            \* "main" | "convert_to_ims" | "convert_to_ometiff"
    IMARIS_AVAILABLE, \* module global set by the import block, lines 15-27
    czi_sizes,        \* dict(zip(czi.dims, czi.size)) of the file on disk
    in_czi,           \* main: result of askopenfilename
    use_ims,          \* main: format choice
    out,              \* main: result of asksaveasfilename
    T, C, Z,          \* locals of the running convert_* function
    Y, X,
    t, c, z,          \* loop indices of the assembly loop
    arr,              \* the 5-D array, one entry per (t, c, z) plane
    reads,            \* every read_mosaic request made, in order
    vx, vy, vz,       \* answers of the three askfloat prompts
    conv,             \* the ImageConverter: "none" | "open" | "destroyed"
    conv_args,        \* arguments ImageConverter was created with
    block,            \* arguments of CopyBlock
    params,           \* PW.Parameters(): channel index -> channel name
    ci,               \* loop index of the two channel loops
    color_infos,      \* list of ColorInfo built at lines 127-132
    finish,           \* arguments of Finish
    written,          \* arguments of tifffile.imwrite
    exc,              \* the exception raised, None if none
    events            \* every other external call made, in order

vars == <<pc, entry, IMARIS_AVAILABLE, czi_sizes, in_czi, use_ims, out,
          T, C, Z, Y, X, t, c, z, arr, reads, vx, vy, vz, conv, conv_args,
          block, params, ci, color_infos, finish, written, exc, events>>

(***************************************************************************)
(* Bounds of the model: the input file and the user's answers.             *)
(***************************************************************************)
MaxT == 2
MaxC == 5
MaxZ == 2
PlaneY == 2
PlaneX == 3
MaxLead == 2

\* Python's None; a value v that is present is <<v>>.
None == <<>>
Some(v) == <<v>>

\* What the user can answer to an askfloat prompt: None when the prompt is
\* cancelled, else the number typed.  askfloat is called without minvalue or
\* maxvalue, so a negative number and zero are accepted like any other.
VoxelAnswers == {None, Some(-1), Some(0), Some(2)}

\* The dimension dictionaries a CZI file can have: each of T, C, Z is
\* either absent or has an extent of at least 1.
DimExtent(d) == CASE d = "T" -> 1..MaxT [] d = "C" -> 1..MaxC [] d = "Z" -> 1..MaxZ
CziSizes ==
    UNION {{f \in [D -> 1..(MaxT + MaxC + MaxZ)] : \A d \in D : f[d] \in DimExtent(d)}
           : D \in SUBSET {"T", "C", "Z"}}

SampleDtype == "uint16"

(***************************************************************************)
(* Pure helpers.                                                           *)
(***************************************************************************)
\* sizes.get(d, 1)
SizesGet(sizes, d) == IF d \in DOMAIN sizes THEN sizes[d] ELSE 1

\* The index space of arr[t, c, z].
Triples(nT, nC, nZ) == (0..nT-1) \X (0..nC-1) \X (0..nZ-1)

\* np.zeros((T, C, Z, Y, X)): every plane is zero.
Zero == <<0>>
NpZeros(nT, nC, nZ) == [tr \in Triples(nT, nC, nZ) |-> Zero]

\* czi.read_mosaic(T=t, C=c, Z=z): an array with `lead` leading entries, each
\* a Y-by-X plane; plane m of coordinate (t, c, z) is named by <<t, c, z, m>>.
ReadMosaic(pt, pc_, pz, lead) == [m \in 1..lead |-> <<pt, pc_, pz, m - 1>>]

\* mos.reshape(-1, Y, X)[0]: the first plane of the mosaic.
FirstPlane(mos) == mos[1]

\* Variant of NextIndex with the loops nested  for c: for t: for z.
NextIndexChannelOuter(it, ic, iz, nC, nZ) ==
    IF iz + 1 < nZ THEN <<it, ic, iz + 1>>
    ELSE IF it + 1 < T THEN <<it + 1, ic, 0>>
    ELSE IF ic + 1 < nC THEN <<0, ic + 1, 0>>
    ELSE <<T, 0, 0>>

\* The successor of (t, c, z) in  for t: for c: for z.
NextIndex(it, ic, iz, nC, nZ) ==
    IF iz + 1 < nZ THEN <<it, ic, iz + 1>>
    ELSE IF ic + 1 < nC THEN <<it, ic + 1, 0>>
    ELSE <<it + 1, 0, 0>>

\* Variant of Ravel flattening in column-major order (order='F').
RavelFortran(a, nT, nC, nZ) ==
    [k \in 1..(nT * nC * nZ) |->
        a[<<(k - 1) % nT, ((k - 1) \div nT) % nC, (k - 1) \div (nT * nC)>>]]

\* arr.ravel(order='C'): the planes in row-major order, last index fastest.
Ravel(a, nT, nC, nZ) ==
    [k \in 1..(nT * nC * nZ) |->
        a[<<(k - 1) \div (nC * nZ), ((k - 1) \div nZ) % nC, (k - 1) % nZ>>]]

\* PW.ImageSize(x, y, z, c, t); PW.ImageSize() is the all-zero index.
ImageSize(sx, sy, sz, sc, st) == [x |-> sx, y |-> sy, z |-> sz, c |-> sc, t |-> st]
ImageSizeDefault == ImageSize(0, 0, 0, 0, 0)

\* base_rgbs, line 122
base_rgbs == <<<<1, 0, 0>>, <<0, 1, 0>>, <<0, 0, 1>>, <<1, 1, 0>>>>

\* f"Channel {ci}"
ChannelName(i) == "Channel " \o ToString(i)

\* Variant of BaseColor cycling one entry short of the palette.
BaseColorShortCycle(i) ==
    LET rgb == base_rgbs[(i % (Len(base_rgbs) - 1)) + 1]
    IN  [r |-> rgb[1], g |-> rgb[2], b |-> rgb[3], a |-> 1]

\* base_rgbs[ci % len(base_rgbs)] wrapped in PW.Color(r, g, b, 1.0)
BaseColor(i) ==
    LET rgb == base_rgbs[(i % Len(base_rgbs)) + 1]
    IN  [r |-> rgb[1], g |-> rgb[2], b |-> rgb[3], a |-> 1]

\* PW.ImageExtents(0, 0, 0, vx*X, vy*Y, vz*Z)
ImageExtents(ax, ay, az, nX, nY, nZ) == <<0, 0, 0, ax * nX, ay * nY, az * nZ>>

\* Variant of VoxelCancelled that tests the first answer only.
VoxelCancelledFirstOnly(ax, ay, az) == ax = None

\* None in (vx, vy, vz)
VoxelCancelled(ax, ay, az) == None \in {ax, ay, az}

(***************************************************************************)
(* Control transfer.                                                       *)
(***************************************************************************)
\* An exception raised inside convert_*: in the script it unwinds to the
\* except clause at line 196; in a direct call it reaches the caller.
Raise(what) ==
    /\ exc' = Some(what)
    /\ pc' = IF entry = "main" THEN "L196" ELSE "raised"

\* convert_* returns: in the script control continues at line 195.
Return == pc' = IF entry = "main" THEN "L195" ELSE "returned"

Log(e) == events' = Append(events, e)

Init ==
    /\ entry \in {"main", "convert_to_ims", "convert_to_ometiff"}
    /\ pc = CASE entry = "main" -> "L147"
              [] entry = "convert_to_ims" -> "L66"
              [] entry = "convert_to_ometiff" -> "L45"
    /\ IMARIS_AVAILABLE \in BOOLEAN
    /\ czi_sizes \in CziSizes
    /\ in_czi = IF entry = "main" THEN "" ELSE "in.czi"
    /\ use_ims = FALSE
    /\ out = CASE entry = "main" -> ""
               [] entry = "convert_to_ims" -> "out.ims"
               [] entry = "convert_to_ometiff" -> "out.ome.tif"
    /\ T = 0 /\ C = 0 /\ Z = 0 /\ Y = 0 /\ X = 0
    /\ t = 0 /\ c = 0 /\ z = 0
    /\ arr = <<>>
    /\ reads = <<>>
    /\ vx = None /\ vy = None /\ vz = None
    /\ conv = "none"
    /\ conv_args = None
    /\ block = None
    /\ params = <<>>
    /\ ci = 0
    /\ color_infos = <<>>
    /\ finish = None
    /\ written = None
    /\ exc = None
    /\ events = <<>>

(***************************************************************************)
(* The __main__ block, lines 142-198.                                      *)
(***************************************************************************)
\* 147-150: the input-file dialog; "" is a cancelled dialog.
AskOpenFilename ==
    /\ pc = "L147"
    /\ \E path \in {"", "in.czi"} : in_czi' = path
    /\ Log("askopenfilename")
    /\ pc' = "L151"
    /\ UNCHANGED <<entry, IMARIS_AVAILABLE, czi_sizes, use_ims, out, T, C, Z, Y, X,
                   t, c, z, arr, reads, vx, vy, vz, conv, conv_args, block, params,
                   ci, color_infos, finish, written, exc>>

\* 151-153: no file selected.
NoCziSelected ==
    /\ pc = "L151"
    /\ in_czi = ""
    /\ Log("showinfo:Cancelled")
    /\ pc' = "exit"
    /\ UNCHANGED <<entry, IMARIS_AVAILABLE, czi_sizes, in_czi, use_ims, out, T, C, Z,
                   Y, X, t, c, z, arr, reads, vx, vy, vz, conv, conv_args, block,
                   params, ci, color_infos, finish, written, exc>>

\* 156-162: open the file and show its metadata.  The open is outside the
\* try block of line 190: if CziFile raises, nothing catches it.
ShowMetadata ==
    /\ pc = "L151"
    /\ in_czi # ""
    /\ \E ok \in BOOLEAN :
          IF ok
          THEN /\ events' = events \o <<"CziFile", "showinfo:CZI Metadata">>
               /\ pc' = "L165"
               /\ exc' = exc
          ELSE /\ Log("CziFile")
               /\ pc' = "uncaught"
               /\ exc' = Some("CziFile")
    /\ UNCHANGED <<entry, IMARIS_AVAILABLE, czi_sizes, in_czi, use_ims, out, T, C, Z,
                   Y, X, t, c, z, arr, reads, vx, vy, vz, conv, conv_args, block,
                   params, ci, color_infos, finish, written>>

\* Variant of ChooseFormat that asks whether or not Imaris support was loaded.
ChooseFormatAlways ==
    /\ pc = "L165"
    /\ \E yes \in BOOLEAN : use_ims' = yes
    /\ Log("askyesno:Format")
    /\ pc' = "L173"
    /\ UNCHANGED <<entry, IMARIS_AVAILABLE, czi_sizes, in_czi, out, T, C, Z, Y, X,
                   t, c, z, arr, reads, vx, vy, vz, conv, conv_args, block, params,
                   ci, color_infos, finish, written, exc>>

\* 165-170: the format question is asked only when Imaris support was loaded.
ChooseFormat ==
    /\ pc = "L165"
    /\ IF IMARIS_AVAILABLE
       THEN /\ \E yes \in BOOLEAN : use_ims' = yes
            /\ Log("askyesno:Format")
       ELSE /\ use_ims' = FALSE
            /\ events' = events
    /\ pc' = "L173"
    /\ UNCHANGED <<entry, IMARIS_AVAILABLE, czi_sizes, in_czi, out, T, C, Z, Y, X,
                   t, c, z, arr, reads, vx, vy, vz, conv, conv_args, block, params,
                   ci, color_infos, finish, written, exc>>

\* defaultextension of the two save dialogs, lines 176 and 182
DefaultExtension(ims) == IF ims THEN ".ims" ELSE ".ome.tif"

\* 173-184: the save dialog; "" is a cancelled dialog.
AskSaveAsFilename ==
    /\ pc = "L173"
    /\ \E path \in {"", "out" \o DefaultExtension(use_ims)} : out' = path
    /\ Log("asksaveasfilename")
    /\ pc' = "L185"
    /\ UNCHANGED <<entry, IMARIS_AVAILABLE, czi_sizes, in_czi, use_ims, T, C, Z, Y, X,
                   t, c, z, arr, reads, vx, vy, vz, conv, conv_args, block, params,
                   ci, color_infos, finish, written, exc>>

\* 185-187: no output selected.
NoOutputSelected ==
    /\ pc = "L185"
    /\ out = ""
    /\ Log("showinfo:Cancelled")
    /\ pc' = "exit"
    /\ UNCHANGED <<entry, IMARIS_AVAILABLE, czi_sizes, in_czi, use_ims, out, T, C, Z,
                   Y, X, t, c, z, arr, reads, vx, vy, vz, conv, conv_args, block,
                   params, ci, color_infos, finish, written, exc>>

\* 190-194: enter the try block and call the chosen exporter.
CallExporter ==
    /\ pc = "L185"
    /\ out # ""
    /\ Log(IF use_ims THEN "convert_to_ims" ELSE "convert_to_ometiff")
    /\ pc' = IF use_ims THEN "L66" ELSE "L45"
    /\ UNCHANGED <<entry, IMARIS_AVAILABLE, czi_sizes, in_czi, use_ims, out, T, C, Z,
                   Y, X, t, c, z, arr, reads, vx, vy, vz, conv, conv_args, block,
                   params, ci, color_infos, finish, written, exc>>

\* 195: the exporter returned.
ShowDone ==
    /\ pc = "L195"
    /\ Log("showinfo:Done")
    /\ pc' = "end"
    /\ UNCHANGED <<entry, IMARIS_AVAILABLE, czi_sizes, in_czi, use_ims, out, T, C, Z,
                   Y, X, t, c, z, arr, reads, vx, vy, vz, conv, conv_args, block,
                   params, ci, color_infos, finish, written, exc>>

\* 196-198: the except clause: print the error, show it, fall off the end.
ShowError ==
    /\ pc = "L196"
    /\ events' = events \o <<"print:[ERROR]", "showerror:Error">>
    /\ pc' = "end"
    /\ UNCHANGED <<entry, IMARIS_AVAILABLE, czi_sizes, in_czi, use_ims, out, T, C, Z,
                   Y, X, t, c, z, arr, reads, vx, vy, vz, conv, conv_args, block,
                   params, ci, color_infos, finish, written, exc>>

(***************************************************************************)
(* The volume assembly, written twice in the source: lines 45-59 of        *)
(* convert_to_ometiff and lines 69-83 of convert_to_ims.  `here` is the    *)
(* line the step is at and `next` the line it continues at.                *)
(***************************************************************************)
\* czi = CziFile(input_czi); sizes = ...; T, C, Z = sizes.get(..., 1)
OpenCzi(here, next) ==
    /\ pc = here
    /\ Log("CziFile")
    /\ \E ok \in BOOLEAN :
          IF ok
          THEN /\ T' = SizesGet(czi_sizes, "T")
               /\ C' = SizesGet(czi_sizes, "C")
               /\ Z' = SizesGet(czi_sizes, "Z")
               /\ pc' = next
               /\ exc' = exc
          ELSE /\ Raise("CziFile")
               /\ UNCHANGED <<T, C, Z>>
    /\ UNCHANGED <<entry, IMARIS_AVAILABLE, czi_sizes, in_czi, use_ims, out, Y, X,
                   t, c, z, arr, reads, vx, vy, vz, conv, conv_args, block, params,
                   ci, color_infos, finish, written>>

\* sample = czi.read_mosaic(T=0, C=0, Z=0); Y, X = sample.shape[-2:];
\* arr = np.zeros((T, C, Z, Y, X)); the loops start at t = c = z = 0.
ReadSample(here, next) ==
    /\ pc = here
    /\ reads' = Append(reads, <<0, 0, 0>>)
    /\ \E ok \in BOOLEAN :
          IF ok
          THEN /\ Y' = PlaneY
               /\ X' = PlaneX
               /\ arr' = NpZeros(T, C, Z)
               /\ t' = 0 /\ c' = 0 /\ z' = 0
               /\ pc' = next
               /\ exc' = exc
          ELSE /\ Raise("read_mosaic")
               /\ UNCHANGED <<Y, X, arr, t, c, z>>
    /\ UNCHANGED <<entry, IMARIS_AVAILABLE, czi_sizes, in_czi, use_ims, out, T, C, Z,
                   vx, vy, vz, conv, conv_args, block, params, ci, color_infos,
                   finish, written, events>>

\* Variant of ReadPlane in which a failed read is swallowed and the loops go
\* on, leaving the slice as np.zeros made it.
ReadPlaneSwallow(here) ==
    /\ pc = here
    /\ t < T
    /\ reads' = Append(reads, <<t, c, z>>)
    /\ \E ok \in BOOLEAN, lead \in 1..MaxLead :
          /\ arr' = IF ok
                    THEN [arr EXCEPT ![<<t, c, z>>] = FirstPlane(ReadMosaic(t, c, z, lead))]
                    ELSE arr
          /\ LET n == NextIndex(t, c, z, C, Z)
             IN  t' = n[1] /\ c' = n[2] /\ z' = n[3]
          /\ UNCHANGED <<pc, exc>>
    /\ UNCHANGED <<entry, IMARIS_AVAILABLE, czi_sizes, in_czi, use_ims, out, T, C, Z,
                   Y, X, vx, vy, vz, conv, conv_args, block, params, ci, color_infos,
                   finish, written, events>>

\* One iteration of the innermost loop body:
\*   mos = czi.read_mosaic(T=t, C=c, Z=z); arr[t, c, z] = mos.reshape(-1, Y, X)[0]
\* and the step of the three nested for loops to the next index.
ReadPlane(here) ==
    /\ pc = here
    /\ t < T
    /\ reads' = Append(reads, <<t, c, z>>)
    /\ \E ok \in BOOLEAN, lead \in 1..MaxLead :
          IF ok
          THEN /\ arr' = [arr EXCEPT ![<<t, c, z>>] = FirstPlane(ReadMosaic(t, c, z, lead))]
               /\ LET n == NextIndex(t, c, z, C, Z)
                  IN  t' = n[1] /\ c' = n[2] /\ z' = n[3]
               /\ UNCHANGED <<pc, exc>>
          ELSE /\ Raise("read_mosaic")
               /\ UNCHANGED <<arr, t, c, z>>
    /\ UNCHANGED <<entry, IMARIS_AVAILABLE, czi_sizes, in_czi, use_ims, out, T, C, Z,
                   Y, X, vx, vy, vz, conv, conv_args, block, params, ci, color_infos,
                   finish, written, events>>

\* range(T) is exhausted: control leaves the loops.
LoopDone(here, next) ==
    /\ pc = here
    /\ t >= T
    /\ pc' = next
    /\ UNCHANGED <<entry, IMARIS_AVAILABLE, czi_sizes, in_czi, use_ims, out, T, C, Z,
                   Y, X, t, c, z, arr, reads, vx, vy, vz, conv, conv_args, block,
                   params, ci, color_infos, finish, written, exc, events>>

(***************************************************************************)
(* convert_to_ometiff, lines 43-63.                                        *)
(***************************************************************************)
tif_OpenCzi == OpenCzi("L45", "L50")
tif_ReadSample == ReadSample("L50", "L54")
tif_ReadPlane == ReadPlane("L54")
tif_LoopDone == LoopDone("L54", "L62")

\* 62: tifffile.imwrite(output_path, arr, metadata={'axes':'TCZYX'}, ome=True)
ImWrite ==
    /\ pc = "L62"
    /\ Log("imwrite")
    /\ written' = Some([path |-> out, data |-> arr, axes |-> "TCZYX", ome |-> TRUE])
    /\ \E ok \in BOOLEAN :
          IF ok THEN Return /\ exc' = exc ELSE Raise("imwrite")
    /\ UNCHANGED <<entry, IMARIS_AVAILABLE, czi_sizes, in_czi, use_ims, out, T, C, Z,
                   Y, X, t, c, z, arr, reads, vx, vy, vz, conv, conv_args, block,
                   params, ci, color_infos, finish>>

(***************************************************************************)
(* convert_to_ims, lines 65-140.                                           *)
(***************************************************************************)
\* Variant of CheckAvailable without the test of IMARIS_AVAILABLE.
CheckAvailableMissing ==
    /\ pc = "L66"
    /\ pc' = "L69"
    /\ UNCHANGED <<entry, IMARIS_AVAILABLE, czi_sizes, in_czi, use_ims, out, T, C, Z,
                   Y, X, t, c, z, arr, reads, vx, vy, vz, conv, conv_args, block,
                   params, ci, color_infos, finish, written, exc, events>>

\* 66-67: if not IMARIS_AVAILABLE: raise RuntimeError(...)
CheckAvailable ==
    /\ pc = "L66"
    /\ IF IMARIS_AVAILABLE
       THEN pc' = "L69" /\ exc' = exc
       ELSE Raise("PyImarisWriter unavailable; cannot write .ims")
    /\ UNCHANGED <<entry, IMARIS_AVAILABLE, czi_sizes, in_czi, use_ims, out, T, C, Z,
                   Y, X, t, c, z, arr, reads, vx, vy, vz, conv, conv_args, block,
                   params, ci, color_infos, finish, written, events>>

ims_OpenCzi == OpenCzi("L69", "L74")
ims_ReadSample == ReadSample("L74", "L78")
ims_ReadPlane == ReadPlane("L78")
ims_LoopDone == LoopDone("L78", "L86")

\* 86: vx = simpledialog.askfloat("Voxel Size", "X (µm):", initialvalue=1.0)
AskVoxelX ==
    /\ pc = "L86"
    /\ \E ans \in VoxelAnswers : vx' = ans
    /\ Log("askfloat:X")
    /\ pc' = "L87"
    /\ UNCHANGED <<entry, IMARIS_AVAILABLE, czi_sizes, in_czi, use_ims, out, T, C, Z,
                   Y, X, t, c, z, arr, reads, vy, vz, conv, conv_args, block, params,
                   ci, color_infos, finish, written, exc>>

\* 87
AskVoxelY ==
    /\ pc = "L87"
    /\ \E ans \in VoxelAnswers : vy' = ans
    /\ Log("askfloat:Y")
    /\ pc' = "L88"
    /\ UNCHANGED <<entry, IMARIS_AVAILABLE, czi_sizes, in_czi, use_ims, out, T, C, Z,
                   Y, X, t, c, z, arr, reads, vx, vz, conv, conv_args, block, params,
                   ci, color_infos, finish, written, exc>>

\* 88
AskVoxelZ ==
    /\ pc = "L88"
    /\ \E ans \in VoxelAnswers : vz' = ans
    /\ Log("askfloat:Z")
    /\ pc' = "L89"
    /\ UNCHANGED <<entry, IMARIS_AVAILABLE, czi_sizes, in_czi, use_ims, out, T, C, Z,
                   Y, X, t, c, z, arr, reads, vx, vy, conv, conv_args, block, params,
                   ci, color_infos, finish, written, exc>>

\* 89-90: if None in (vx, vy, vz): raise RuntimeError("Voxel size entry cancelled.")
CheckVoxel ==
    /\ pc = "L89"
    /\ IF VoxelCancelled(vx, vy, vz)
       THEN Raise("Voxel size entry cancelled.")
       ELSE pc' = "L93" /\ exc' = exc
    /\ UNCHANGED <<entry, IMARIS_AVAILABLE, czi_sizes, in_czi, use_ims, out, T, C, Z,
                   Y, X, t, c, z, arr, reads, vx, vy, vz, conv, conv_args, block,
                   params, ci, color_infos, finish, written, events>>

\* 93-111: describe the geometry and create the ImageConverter.
CreateConverter ==
    /\ pc = "L93"
    /\ Log("ImageConverter")
    /\ LET image_size == ImageSize(X, Y, Z, C, T)
       IN  conv_args' = Some([dtype |-> SampleDtype,
                              image_size |-> image_size,
                              sample_size |-> ImageSize(1, 1, 1, 1, 1),
                              dim_seq |-> <<"x", "y", "z", "c", "t">>,
                              block_size |-> image_size,
                              path |-> out,
                              app |-> <<"CZI2IMS", "1.0">>])
    /\ \E ok \in BOOLEAN :
          IF ok
          THEN conv' = "open" /\ pc' = "L115" /\ exc' = exc
          ELSE conv' = conv /\ Raise("ImageConverter")
    /\ UNCHANGED <<entry, IMARIS_AVAILABLE, czi_sizes, in_czi, use_ims, out, T, C, Z,
                   Y, X, t, c, z, arr, reads, vx, vy, vz, block, params, ci,
                   color_infos, finish, written>>

\* 115-117: flat = arr.ravel(order='C'); idx = PW.ImageSize(); conv.CopyBlock(flat, idx)
CopyBlock ==
    /\ pc = "L115"
    /\ Log("CopyBlock")
    /\ block' = Some([flat |-> Ravel(arr, T, C, Z), idx |-> ImageSizeDefault])
    /\ \E ok \in BOOLEAN :
          IF ok
          THEN pc' = "L123" /\ exc' = exc /\ ci' = 0 /\ params' = <<>>
          ELSE Raise("CopyBlock") /\ UNCHANGED <<ci, params>>
    /\ UNCHANGED <<entry, IMARIS_AVAILABLE, czi_sizes, in_czi, use_ims, out, T, C, Z,
                   Y, X, t, c, z, arr, reads, vx, vy, vz, conv, conv_args,
                   color_infos, finish, written>>

\* 123-124: for ci in range(C): params.set_channel_name(ci, f"Channel {ci}")
\* params holds the name of channel ci at position ci + 1.
SetChannelName ==
    /\ pc = "L123"
    /\ ci < C
    /\ params' = [k \in (DOMAIN params) \cup {ci + 1} |->
                     IF k = ci + 1 THEN ChannelName(ci) ELSE params[k]]
    /\ ci' = ci + 1
    /\ UNCHANGED <<pc, entry, IMARIS_AVAILABLE, czi_sizes, in_czi, use_ims, out, T, C,
                   Z, Y, X, t, c, z, arr, reads, vx, vy, vz, conv, conv_args, block,
                   color_infos, finish, written, exc, events>>

\* 125-127: the first channel loop is exhausted; color_infos = []
NamesDone ==
    /\ pc = "L123"
    /\ ci >= C
    /\ color_infos' = <<>>
    /\ ci' = 0
    /\ pc' = "L128"
    /\ UNCHANGED <<entry, IMARIS_AVAILABLE, czi_sizes, in_czi, use_ims, out, T, C, Z,
                   Y, X, t, c, z, arr, reads, vx, vy, vz, conv, conv_args, block,
                   params, finish, written, exc, events>>

\* 128-132: one iteration of the colour loop.  ColorInfo is whichever class
\* line 18 found; building the colour can raise.
AppendColor ==
    /\ pc = "L128"
    /\ ci < C
    /\ \E ok \in BOOLEAN :
          IF ok
          THEN /\ color_infos' = Append(color_infos, BaseColor(ci))
               /\ ci' = ci + 1
               /\ UNCHANGED <<pc, exc>>
          ELSE /\ Raise("ColorInfo")
               /\ UNCHANGED <<color_infos, ci>>
    /\ UNCHANGED <<entry, IMARIS_AVAILABLE, czi_sizes, in_czi, use_ims, out, T, C, Z,
                   Y, X, t, c, z, arr, reads, vx, vy, vz, conv, conv_args, block,
                   params, finish, written, events>>

\* 134-138: the colour loop is exhausted; compute the extents and call Finish.
Finish ==
    /\ pc = "L128"
    /\ ci >= C
    /\ Log("Finish")
    /\ finish' = Some([image_extents |-> ImageExtents(vx[1], vy[1], vz[1], X, Y, Z),
                       params |-> params,
                       time_infos |-> <<"datetime.now()">>,
                       color_infos |-> color_infos,
                       adjust_color_range |-> TRUE])
    /\ \E ok \in BOOLEAN :
          IF ok THEN pc' = "L139" /\ exc' = exc ELSE Raise("Finish")
    /\ UNCHANGED <<entry, IMARIS_AVAILABLE, czi_sizes, in_czi, use_ims, out, T, C, Z,
                   Y, X, t, c, z, arr, reads, vx, vy, vz, conv, conv_args, block,
                   params, ci, color_infos, written>>

\* 139-140: conv.Destroy(), then the function returns.
Destroy ==
    /\ pc = "L139"
    /\ Log("Destroy")
    /\ \E ok \in BOOLEAN :
          IF ok
          THEN conv' = "destroyed" /\ Return /\ exc' = exc
          ELSE conv' = conv /\ Raise("Destroy")
    /\ UNCHANGED <<entry, IMARIS_AVAILABLE, czi_sizes, in_czi, use_ims, out, T, C, Z,
                   Y, X, t, c, z, arr, reads, vx, vy, vz, conv_args, block, params,
                   ci, color_infos, finish, written>>

Next ==
    \/ AskOpenFilename
    \/ NoCziSelected
    \/ ShowMetadata
    \/ ChooseFormat
    \/ AskSaveAsFilename
    \/ NoOutputSelected
    \/ CallExporter
    \/ ShowDone
    \/ ShowError
    \/ tif_OpenCzi
    \/ tif_ReadSample
    \/ tif_ReadPlane
    \/ tif_LoopDone
    \/ ImWrite
    \/ CheckAvailable
    \/ ims_OpenCzi
    \/ ims_ReadSample
    \/ ims_ReadPlane
    \/ ims_LoopDone
    \/ AskVoxelX
    \/ AskVoxelY
    \/ AskVoxelZ
    \/ CheckVoxel
    \/ CreateConverter
    \/ CopyBlock
    \/ SetChannelName
    \/ NamesDone
    \/ AppendColor
    \/ Finish
    \/ Destroy

Spec == Init /\ [][Next]_vars

(***************************************************************************)
(* Vocabulary of the properties.                                           *)
(***************************************************************************)
Has(e) == \E i \in DOMAIN events : events[i] = e
Count(e) == Cardinality({i \in DOMAIN events : events[i] = e})
Last(q) == q[Len(q)]
\* The place of a call of e.
Pos(e) == CHOOSE i \in DOMAIN events : events[i] = e

\* The calls that hand the array, or metadata computed for it, to a writer.
ArrayConsumers == {"imwrite", "ImageConverter", "CopyBlock"}
WriterCalls == {"imwrite", "ImageConverter", "CopyBlock", "Finish"}

\* The plane the reader holds for coordinate tr, leading entries collapsed.
PlaneOf(tr) == <<tr[1], tr[2], tr[3], 0>>

\* The number of triples of the index space that precede tr in
\* lexicographic order.
LexRank(tr) == tr[1] * C * Z + tr[2] * Z + tr[3]

\* (a1, a2, a3) < (b1, b2, b3) in lexicographic order.
LexLess(a, b) ==
    \/ a[1] < b[1]
    \/ a[1] = b[1] /\ a[2] < b[2]
    \/ a[1] = b[1] /\ a[2] = b[2] /\ a[3] < b[3]

\* The read_mosaic requests made by the loops (the first request of a run is
\* the sample read of line 50 / 74).
LoopReads == IF reads = <<>> THEN <<>> ELSE Tail(reads)

----------------------------------------------------------------------------
\* C1: a writer call that consumes the array (imwrite, ImageConverter
\* creation, CopyBlock) is made only when every slice arr[t, c, z] has been
\* assigned from a successful read of plane (t, c, z); the array handed over
\* holds no zero-initialised slice; and after a failed read_mosaic no writer
\* call has been made.
C1_NoPartialArrayWritten ==
    /\ (\E i \in DOMAIN events : events[i] \in ArrayConsumers) =>
          LET lr == LoopReads
          IN  /\ DOMAIN arr = Triples(T, C, Z)
              /\ Len(lr) = T * C * Z
              /\ \A tr \in Triples(T, C, Z) :
                    /\ arr[tr] = PlaneOf(tr)
                    /\ lr[LexRank(tr) + 1] = tr
    /\ written # None =>
          \A tr \in Triples(T, C, Z) : written[1].data[tr] = PlaneOf(tr)
    /\ block # None =>
          /\ Len(block[1].flat) = T * C * Z
          /\ \A k \in DOMAIN block[1].flat : block[1].flat[k] # Zero
    /\ exc = Some("read_mosaic") =>
          /\ \A i \in DOMAIN events : events[i] \notin WriterCalls
          /\ written = None /\ block = None /\ conv = "none"

\* An OME-TIFF run that wrote an array of several planes.
C1_Witness ==
    /\ entry = "main" /\ pc = "end"
    /\ written # None
    /\ T * C * Z >= 4

\* C2: in the script, cancelling the input-file dialog, the output-path dialog
\* or, when Imaris was chosen, any of the three voxel-size prompts leads to no
\* writer call and no escaping exception: the run can only go on to the
\* 'Cancelled' dialog and exit, or to the error dialog and the end.
C2_Cancelled ==
    \/ Has("askopenfilename") /\ in_czi = ""
    \/ Has("asksaveasfilename") /\ out = ""
    \/ use_ims /\ Has("askfloat:X") /\ vx = None
    \/ use_ims /\ Has("askfloat:Y") /\ vy = None
    \/ use_ims /\ Has("askfloat:Z") /\ vz = None

C2_CancelWritesNothing ==
    (entry = "main" /\ C2_Cancelled) =>
        /\ \A i \in DOMAIN events : events[i] \notin WriterCalls \cup {"Destroy"}
        /\ written = None /\ conv_args = None /\ block = None /\ finish = None
        /\ ~Has("showinfo:Done")
        /\ pc \in {"L151", "L185", "L87", "L88", "L89", "L196", "exit", "end"}
        /\ pc = "exit" => Last(events) = "showinfo:Cancelled" /\ exc = None
        /\ pc = "end" => /\ Last(events) = "showerror:Error"
                         /\ exc = Some("Voxel size entry cancelled.")

\* The Y prompt alone was cancelled and the run has ended.
C2_Witness ==
    /\ entry = "main" /\ use_ims /\ pc = "end"
    /\ vx # None /\ vy = None /\ vz # None

\* C3: every failure of an external read or write call (CziFile at any place
\* the script opens the file, read_mosaic, imwrite, ImageConverter, CopyBlock,
\* the colour construction, Finish, Destroy) is caught at the top level and
\* shown in exactly one error dialog; such a run never shows 'Conversion
\* complete' and never ends with an uncaught exception.
C3_IOFailures ==
    {Some(f) : f \in {"CziFile", "read_mosaic", "imwrite", "ImageConverter",
                      "CopyBlock", "ColorInfo", "Finish", "Destroy"}}

C3_EveryFailureCaught ==
    (entry = "main" /\ exc \in C3_IOFailures) =>
        /\ pc \in {"L196", "end"}
        /\ ~Has("showinfo:Done")
        /\ pc = "end" => Count("showerror:Error") = 1 /\ Count("print:[ERROR]") = 1

\* C4: convert_to_ims called while IMARIS_AVAILABLE is false raises the
\* 'unavailable' error before the file is opened, before any read_mosaic, any
\* voxel prompt and any writer call; and the script selects the Imaris path
\* only when IMARIS_AVAILABLE is true.
C4_UnavailableFailsFast ==
    /\ (entry = "convert_to_ims" /\ ~IMARIS_AVAILABLE) =>
          /\ pc \in {"L66", "raised"}
          /\ pc = "raised" => exc = Some("PyImarisWriter unavailable; cannot write .ims")
          /\ events = <<>> /\ reads = <<>>
          /\ T = 0 /\ C = 0 /\ Z = 0 /\ DOMAIN arr = {}
          /\ vx = None /\ vy = None /\ vz = None
          /\ conv = "none" /\ conv_args = None /\ block = None /\ finish = None
    /\ (entry = "main" /\ (use_ims \/ Has("convert_to_ims"))) => IMARIS_AVAILABLE

\* The direct call has raised the 'unavailable' error.
C4_Witness ==
    /\ entry = "convert_to_ims" /\ ~IMARIS_AVAILABLE
    /\ pc = "raised"

\* C5: the dialogs of a run occur in the order input file, metadata summary,
\* format question (asked iff IMARIS_AVAILABLE), output path, voxel X, Y, Z
\* (asked only when Imaris was chosen, and always before a successful Imaris
\* export), final dialog; none is repeated or skipped over; and all three
\* voxel prompts precede ImageConverter creation, CopyBlock and Finish.
C5_Dialogs ==
    {"askopenfilename", "showinfo:CZI Metadata", "askyesno:Format",
     "asksaveasfilename", "askfloat:X", "askfloat:Y", "askfloat:Z",
     "showinfo:Done", "showerror:Error", "showinfo:Cancelled"}

C5_IsDialog(e) == e \in C5_Dialogs

C5_Rank(e) ==
    CASE e = "askopenfilename" -> 1
      [] e = "showinfo:CZI Metadata" -> 2
      [] e = "askyesno:Format" -> 3
      [] e = "asksaveasfilename" -> 4
      [] e = "askfloat:X" -> 5
      [] e = "askfloat:Y" -> 6
      [] e = "askfloat:Z" -> 7
      [] OTHER -> 8

C5_FixedDialogOrder ==
    LET ui == SelectSeq(events, C5_IsDialog)
    IN  /\ \A i \in 1..(Len(ui) - 1) : C5_Rank(ui[i]) < C5_Rank(ui[i + 1])
        /\ Has("askfloat:Y") => Has("askfloat:X")
        /\ Has("askfloat:Z") => Has("askfloat:Y")
        /\ \A i \in DOMAIN events :
              events[i] \in {"ImageConverter", "CopyBlock", "Finish"} =>
                 \E jz \in 3..(i - 1) :
                    /\ events[jz - 2] = "askfloat:X"
                    /\ events[jz - 1] = "askfloat:Y"
                    /\ events[jz] = "askfloat:Z"
        /\ entry = "main" =>
              /\ ui # <<>> => ui[1] = "askopenfilename"
              /\ Has("showinfo:CZI Metadata") => Has("askopenfilename")
              /\ Has("askyesno:Format") => Has("showinfo:CZI Metadata")
              /\ Has("asksaveasfilename") =>
                    /\ Has("showinfo:CZI Metadata")
                    /\ Has("askyesno:Format") <=> IMARIS_AVAILABLE
              /\ Has("askfloat:X") => Has("asksaveasfilename") /\ use_ims
              /\ (Has("showinfo:Done") \/ Has("showerror:Error")) =>
                    Has("asksaveasfilename")
              /\ Has("showinfo:Done") => (use_ims <=> Has("askfloat:Z"))
              /\ pc \in {"end", "exit"} => C5_Rank(Last(ui)) = 8

\* A script run that went through every dialog of the Imaris path.
C5_Witness ==
    /\ entry = "main" /\ pc = "end"
    /\ SelectSeq(events, C5_IsDialog) =
          <<"askopenfilename", "showinfo:CZI Metadata", "askyesno:Format",
            "asksaveasfilename", "askfloat:X", "askfloat:Y", "askfloat:Z",
            "showinfo:Done">>

\* C6: Finish receives exactly C colours and exactly C channel names; channel
\* i is named "Channel i" and has the palette colour at position i mod 4 of
\* red, green, blue, yellow with alpha 1.0; for C <= 4 the colours are
\* pairwise distinct and in palette order.
C6_Palette ==
    <<[r |-> 1, g |-> 0, b |-> 0, a |-> 1], [r |-> 0, g |-> 1, b |-> 0, a |-> 1],
      [r |-> 0, g |-> 0, b |-> 1, a |-> 1], [r |-> 1, g |-> 1, b |-> 0, a |-> 1]>>

C6_Digits == <<"0", "1", "2", "3", "4", "5", "6", "7", "8", "9">>

C6_ChannelColours ==
    finish # None =>
        LET cols == finish[1].color_infos
            names == finish[1].params
        IN  /\ Len(cols) = C
            /\ DOMAIN names = 1..C
            /\ \A i \in 0..(C - 1) :
                  /\ names[i + 1] = "Channel " \o C6_Digits[i + 1]
                  /\ cols[i + 1] = C6_Palette[(i % 4) + 1]
            /\ C <= 4 =>
                  /\ cols = SubSeq(C6_Palette, 1, C)
                  /\ \A i, j \in 1..C : i # j => cols[i] # cols[j]

\* Finish was called for a file with more channels than the palette has colours.
C6_Witness ==
    /\ finish # None
    /\ C = 5
    /\ finish[1].color_infos[5] = finish[1].color_infos[1]

\* C7: in a run of the script, converter creation, CopyBlock and Finish are
\* reached only with three positive voxel sizes; no zero or negative voxel
\* size reaches the physical extents passed to Finish.
C7_PositiveVoxelSizes ==
    entry = "main" =>
        /\ (conv_args # None \/ block # None \/ finish # None) =>
              /\ vx # None /\ vy # None /\ vz # None
              /\ vx[1] > 0 /\ vy[1] > 0 /\ vz[1] > 0
        /\ finish # None =>
              \A k \in 4..6 : finish[1].image_extents[k] > 0

\* C8: in a run of the script with three positive voxel sizes, once the
\* ImageConverter has been created, Destroy has been called exactly once by
\* the time convert_to_ims has ended, whether it returned or raised.
C8_ImsEnded == pc \in {"L195", "L196", "end"}

C8_PositiveVoxels ==
    /\ vx # None /\ vy # None /\ vz # None
    /\ vx[1] > 0 /\ vy[1] > 0 /\ vz[1] > 0

C8_DestroyOnEveryPath ==
    (entry = "main" /\ conv # "none" /\ C8_ImsEnded /\ C8_PositiveVoxels) =>
        /\ conv = "destroyed"
        /\ Count("Destroy") = 1

\* C9: the writer calls of an Imaris export are made in the order
\* ImageConverter, CopyBlock, Finish, Destroy, each at most once and none
\* skipped; CopyBlock gets the whole array flattened in row-major order at the
\* all-zero block index, the block size being the image size (X, Y, Z, C, T);
\* an export that returned made all four calls; 'Conversion complete' follows
\* Destroy; and a run calls at most one exporter, at most once.
C9_IsWriterCall(e) == e \in {"ImageConverter", "CopyBlock", "Finish", "Destroy"}

C9_IsPrefix(p, q) == Len(p) <= Len(q) /\ p = SubSeq(q, 1, Len(p))

C9_WriterOrder ==
    LET w == SelectSeq(events, C9_IsWriterCall)
        full == <<"ImageConverter", "CopyBlock", "Finish", "Destroy">>
    IN  /\ C9_IsPrefix(w, full)
        /\ conv_args # None =>
              /\ conv_args[1].image_size = [x |-> X, y |-> Y, z |-> Z, c |-> C, t |-> T]
              /\ conv_args[1].block_size = conv_args[1].image_size
        /\ block # None =>
              /\ block[1].idx = [x |-> 0, y |-> 0, z |-> 0, c |-> 0, t |-> 0]
              /\ Len(block[1].flat) = T * C * Z
              /\ \A tr \in Triples(T, C, Z) :
                    block[1].flat[tr[1] * C * Z + tr[2] * Z + tr[3] + 1] = arr[tr]
        /\ (pc \in {"L195", "returned"} /\ conv_args # None) =>
              w = full /\ conv = "destroyed"
        /\ (Has("showinfo:Done") /\ use_ims) =>
              /\ w = full
              /\ Pos("Destroy") < Pos("showinfo:Done")
        /\ Count("convert_to_ims") + Count("convert_to_ometiff") <= 1
        /\ Count("imwrite") <= 1
        /\ ~(Has("imwrite") /\ Has("ImageConverter"))
        /\ (entry = "main" /\ Has("showinfo:Done")) =>
              Count("convert_to_ims") + Count("convert_to_ometiff") = 1

\* A finished Imaris export of a volume whose three plane extents all exceed 1.
C9_Witness ==
    /\ entry = "main" /\ Has("showinfo:Done")
    /\ conv = "destroyed"
    /\ T > 1 /\ C > 1 /\ Z > 1

\* C10: the loops request the planes in strictly increasing lexicographic
\* order of (t, c, z), skipping none; each request that succeeds is stored
\* into arr[t, c, z] and no other slice is touched; when the loops are left
\* every triple of 0..T-1 x 0..C-1 x 0..Z-1 has been requested exactly once;
\* the order of requests depends on the extents alone; and a dimension missing
\* from the file has extent 1.
C10_Opened == T > 0

C10_LoopsLeft == DOMAIN arr # {} /\ t >= T

C10_AssemblyOrder ==
    LET lr == LoopReads
    IN  /\ C10_Opened =>
              /\ T = (IF "T" \in DOMAIN czi_sizes THEN czi_sizes["T"] ELSE 1)
              /\ C = (IF "C" \in DOMAIN czi_sizes THEN czi_sizes["C"] ELSE 1)
              /\ Z = (IF "Z" \in DOMAIN czi_sizes THEN czi_sizes["Z"] ELSE 1)
        /\ reads # <<>> => reads[1] = <<0, 0, 0>>
        \* request i of the loops is for the i-th triple in lexicographic order
        /\ \A i \in DOMAIN lr :
              /\ lr[i] \in Triples(T, C, Z)
              /\ LexRank(lr[i]) = i - 1
              /\ i > 1 => LexLess(lr[i - 1], lr[i])
        \* a slice holds its own plane once requested, and zeros before
        /\ \A tr \in DOMAIN arr :
              /\ arr[tr] \in {Zero, PlaneOf(tr)}
              /\ arr[tr] # Zero => LexRank(tr) < Len(lr)
              /\ (arr[tr] = Zero /\ LexRank(tr) < Len(lr)) =>
                    (exc = Some("read_mosaic") /\ Last(reads) = tr)
        /\ C10_LoopsLeft =>
              /\ Len(lr) = T * C * Z
              /\ \A tr \in Triples(T, C, Z) :
                    lr[LexRank(tr) + 1] = tr /\ arr[tr] = PlaneOf(tr)

\* The loops were left for a file that has extents 2 x 2 in T and C and no Z.
C10_Witness ==
    /\ C10_LoopsLeft
    /\ "Z" \notin DOMAIN czi_sizes
    /\ T = 2 /\ C = 2 /\ Z = 1

====
